---- MODULE Spec2Model ----
(***************************************************************************)
(* The location-resolution engine and the geocoding pipeline of the        *)
(* disasters project: generate_geojson.py (gazetteer matcher),             *)
(* geocode_nominatim.py (cached external geocoding), geocode_missing.py    *)
(* (append-only geocoding) and csv_to_db.py (the table loader).            *)
(*                                                                         *)
(* Python strings are TLA+ strings; a coordinate (lat, lon) is a pair of   *)
(* integers in micro-degrees (31.054487 is 31054487); Python's None is     *)
(* the empty tuple; an insertion-ordered dict is a sequence of             *)
(* <<key, value>> pairs with distinct keys.                                *)
(***************************************************************************)
EXTENDS Integers, Sequences, FiniteSets, TLC

VARIABLES
    loc_text,   \* find_location_coords: the argument
    norm,       \* find_location_coords: s after the normalisation (line 110)
    coord,      \* find_location_coords: the value returned
    resolved,   \* find_location_coords has returned
    rows,       \* disasters.db: the rows of table disasters, rowid = index
    cacheFile,  \* data/geocode_cache.json
    outFile,    \* data/disasters_geo.json
    pc,         \* geocode_nominatim.main: where the run is; "idle" between runs
    cache,      \* geocode_nominatim.main: cache
    missing,    \* geocode_nominatim.main: missing
    mi,         \* index into missing of the query being geocoded (i, line 158)
    ai,         \* try_geocode_variants: index into out of the next attempt
    lastNet,    \* the run's last network event: "none", "call" or "sleep"
    loaded,     \* what load_cache returned at line 115
    prevOut,    \* data/disasters_geo.json as the run found it at line 177
    lastReply,  \* what the last request of the run met (query_nominatim, lines 54-61)
    sent,       \* the strings given to query_nominatim for the query last geocoded
    listed,     \* list_unmatched.main: what the last run printed
    runs,       \* script runs started so far, csv_to_db's after the first included
    lastDone    \* the last thing that happened between runs

None == <<>>

\* ---------------------------------------------------------------- strings

Char(s, i) == SubSeq(s, i, i)

Drop(s, n) == SubSeq(s, n + 1, Len(s))

StartsWith(s, p) == Len(p) <= Len(s) /\ SubSeq(s, 1, Len(p)) = p

EndsWith(s, p) == Len(p) <= Len(s) /\ SubSeq(s, Len(s) - Len(p) + 1, Len(s)) = p

\* Python's `p in s` for strings.
Contains(s, p) == \E i \in 1..(Len(s) - Len(p) + 1) : SubSeq(s, i, i + Len(p) - 1) = p

UpperLetters == "ABCDEFGHIJKLMNOPQRSTUVWXYZ"

LowerLetters == "abcdefghijklmnopqrstuvwxyz"

Digits == "0123456789"

IndexIn(alphabet, c) ==
    IF \E i \in 1..Len(alphabet) : Char(alphabet, i) = c
    THEN CHOOSE i \in 1..Len(alphabet) : Char(alphabet, i) = c
    ELSE 0

LowerChar(c) ==
    LET i == IndexIn(UpperLetters, c) IN IF i = 0 THEN c ELSE Char(LowerLetters, i)

UpperChar(c) ==
    LET i == IndexIn(LowerLetters, c) IN IF i = 0 THEN c ELSE Char(UpperLetters, i)

RECURSIVE Lower(_)
\* str.lower()
Lower(s) == IF s = "" THEN "" ELSE LowerChar(Head(s)) \o Lower(Tail(s))

RECURSIVE Upper(_)
\* str.upper()
Upper(s) == IF s = "" THEN "" ELSE UpperChar(Head(s)) \o Upper(Tail(s))

Whitespace == {" ", "\t", "\n", "\r"}

\* The regular expression classes \s and \w.
IsSpace(c) == c \in Whitespace

IsWord(c) ==
    \/ IndexIn(LowerLetters, c) # 0
    \/ IndexIn(UpperLetters, c) # 0
    \/ IndexIn(Digits, c) # 0
    \/ c = "_"
    \/ c = "á"

RECURSIVE Replace(_, _, _)
\* str.replace(old, new): every non-overlapping occurrence, left to right.
Replace(s, old, new) ==
    IF s = "" THEN ""
    ELSE IF StartsWith(s, old) THEN new \o Replace(Drop(s, Len(old)), old, new)
    ELSE Head(s) \o Replace(Tail(s), old, new)

RECURSIVE LStrip(_)
LStrip(s) == IF s # "" /\ IsSpace(Head(s)) THEN LStrip(Tail(s)) ELSE s

RECURSIVE RStrip(_)
RStrip(s) ==
    IF s # "" /\ IsSpace(Char(s, Len(s))) THEN RStrip(SubSeq(s, 1, Len(s) - 1)) ELSE s

\* str.strip()
Strip(s) == RStrip(LStrip(s))

RECURSIVE DropWhileIn(_, _)
DropWhileIn(s, cls) ==
    IF s # "" /\ Head(s) \in cls THEN DropWhileIn(Tail(s), cls) ELSE s

RECURSIVE SubRuns(_, _, _)
\* re.sub('[cls]+', rep, s): every maximal run of characters of cls becomes rep.
SubRuns(s, cls, rep) ==
    IF s = "" THEN ""
    ELSE IF Head(s) \in cls THEN rep \o SubRuns(DropWhileIn(s, cls), cls, rep)
    ELSE Head(s) \o SubRuns(Tail(s), cls, rep)

\* re.sub(r'\s+', ' ', s)
CollapseSpaces(s) == SubRuns(s, Whitespace, " ")

\* \band\b matches at position i of s.
AndAt(s, i) ==
    /\ i + 2 <= Len(s)
    /\ SubSeq(s, i, i + 2) = "and"
    /\ (i = 1 \/ ~IsWord(Char(s, i - 1)))
    /\ (i + 3 > Len(s) \/ ~IsWord(Char(s, i + 3)))

RECURSIVE SubAndFrom(_, _)
SubAndFrom(s, i) ==
    IF i > Len(s) THEN ""
    ELSE IF AndAt(s, i) THEN " and " \o SubAndFrom(s, i + 3)
    ELSE Char(s, i) \o SubAndFrom(s, i + 1)

\* re.sub(r"\band\b", ' and ', s)
SubAnd(s) == SubAndFrom(s, 1)

RECURSIVE SubHyphen(_)
\* re.sub(r'\s*-\s*', '-', s): a hyphen swallows the whitespace on both sides.
SubHyphen(s) ==
    IF s = "" THEN ""
    ELSE LET t == LStrip(s) IN
         IF t # "" /\ Head(t) = "-" THEN "-" \o SubHyphen(LStrip(Tail(t)))
         ELSE Head(s) \o SubHyphen(Tail(s))

\* ------------------------------------------------------------ ordered dicts

RECURSIVE DictHas(_, _)
DictHas(d, k) == d # <<>> /\ (Head(d)[1] = k \/ DictHas(Tail(d), k))

RECURSIVE DictGet(_, _)
\* dict.get(k): the value, None when the key is missing.
DictGet(d, k) ==
    IF d = <<>> THEN None
    ELSE IF Head(d)[1] = k THEN Head(d)[2]
    ELSE DictGet(Tail(d), k)

RECURSIVE DictSet(_, _, _)
\* d[k] = v: an existing key keeps its place, a new one goes last.
DictSet(d, k, v) ==
    IF d = <<>> THEN << <<k, v>> >>
    ELSE IF Head(d)[1] = k THEN << <<k, v>> >> \o Tail(d)
    ELSE <<Head(d)>> \o DictSet(Tail(d), k, v)

RECURSIVE DictUpdate(_, _)
\* d.update(items), also the evaluation of a dict literal from the empty dict.
DictUpdate(d, items) ==
    IF items = <<>> THEN d
    ELSE DictUpdate(DictSet(d, Head(items)[1], Head(items)[2]), Tail(items))

DictKeys(d) == {d[i][1] : i \in 1..Len(d)}

\* -------------------------------------------------------------- gazetteer

STATE_COORDS ==
    << <<"alabama", <<32806671, -86791130>>>>, <<"alaska", <<61370716, -152404419>>>>,
       <<"arizona", <<33729759, -111431221>>>>, <<"arkansas", <<34969704, -92373123>>>>,
       <<"california", <<36116203, -119681564>>>>, <<"colorado", <<39059811, -105311104>>>>,
       <<"connecticut", <<41597782, -72755371>>>>, <<"delaware", <<39318523, -75507141>>>>,
       <<"florida", <<27766279, -81686783>>>>, <<"georgia", <<33040619, -83643074>>>>,
       <<"hawaii", <<21094318, -157498337>>>>, <<"idaho", <<44240459, -114478828>>>>,
       <<"illinois", <<40349457, -88986137>>>>, <<"indiana", <<39849426, -86258278>>>>,
       <<"iowa", <<42011539, -93210526>>>>, <<"kansas", <<38526600, -96726486>>>>,
       <<"kentucky", <<37668140, -84670067>>>>, <<"louisiana", <<31169546, -91867805>>>>,
       <<"maine", <<44693947, -69381927>>>>, <<"maryland", <<39063946, -76802101>>>>,
       <<"massachusetts", <<42230171, -71530106>>>>, <<"michigan", <<43326618, -84536095>>>>,
       <<"minnesota", <<45694454, -93900192>>>>, <<"mississippi", <<32741646, -89678696>>>>,
       <<"missouri", <<38456085, -92288368>>>>, <<"montana", <<46921925, -110454353>>>>,
       <<"nebraska", <<41125370, -98268082>>>>, <<"nevada", <<38313515, -117055374>>>>,
       <<"new hampshire", <<43452492, -71563896>>>>, <<"new jersey", <<40298904, -74521011>>>>,
       <<"new mexico", <<34840515, -106248482>>>>, <<"new york", <<42165726, -74948051>>>>,
       <<"north carolina", <<35630066, -79806419>>>>, <<"north dakota", <<47528912, -99784012>>>>,
       <<"ohio", <<40388783, -82764915>>>>, <<"oklahoma", <<35565342, -96928917>>>>,
       <<"oregon", <<44572021, -122070938>>>>, <<"pennsylvania", <<40590752, -77209755>>>>,
       <<"rhode island", <<41680893, -71511780>>>>, <<"south carolina", <<33856892, -80945007>>>>,
       <<"south dakota", <<44299782, -99438828>>>>, <<"tennessee", <<35747845, -86692345>>>>,
       <<"texas", <<31054487, -97563461>>>>, <<"utah", <<40150032, -111862434>>>>,
       <<"vermont", <<44045876, -72710686>>>>, <<"virginia", <<37769337, -78169968>>>>,
       <<"washington", <<47400902, -121490494>>>>, <<"west virginia", <<38491226, -80954453>>>>,
       <<"wisconsin", <<44268543, -89616508>>>>, <<"wyoming", <<42755966, -107302490>>>>,
       <<"district of columbia", <<38907200, -77036900>>>>, <<"puerto rico", <<18220800, -66590100>>>> >>

REGION_COORDS ==
    << <<"southern united states", <<31000000, -86000000>>>>, <<"southern united states,midwestern united states", <<36000000, -88000000>>>>,
       <<"midwestern united states", <<41500000, -90000000>>>>, <<"western united states", <<40000000, -120000000>>>>,
       <<"eastern united states", <<40000000, -75000000>>>>, <<"northeastern united states", <<43000000, -71000000>>>>,
       <<"southeastern united states", <<32000000, -82000000>>>>, <<"great lakes region", <<43000000, -84000000>>>>,
       <<"hawaii", DictGet(STATE_COORDS, "hawaii")>>, <<"alaska", DictGet(STATE_COORDS, "alaska")>> >>

abbr_literal ==
    << <<"AL", "alabama">>, <<"AK", "alaska">>, <<"AZ", "arizona">>, <<"AR", "arkansas">>,
       <<"CA", "california">>, <<"CO", "colorado">>, <<"CT", "connecticut">>, <<"DE", "delaware">>,
       <<"FL", "florida">>, <<"GA", "georgia">>, <<"HI", "hawaii">>, <<"ID", "idaho">>,
       <<"IL", "illinois">>, <<"IN", "indiana">>, <<"IA", "iowa">>, <<"KS", "kansas">>,
       <<"KY", "kentucky">>, <<"LA", "louisiana">>, <<"ME", "maine">>, <<"MD", "maryland">>,
       <<"MA", "massachusetts">>, <<"MI", "michigan">>, <<"MN", "minnesota">>, <<"MS", "mississippi">>,
       <<"MO", "missouri">>, <<"MT", "montana">>, <<"NE", "nebraska">>, <<"NV", "nevada">>,
       <<"NH", "new hampshire">>, <<"NJ", "new jersey">>, <<"NM", "new mexico">>, <<"NY", "new york">>,
       <<"NC", "north carolina">>, <<"ND", "north dakota">>, <<"OH", "ohio">>, <<"OK", "oklahoma">>,
       <<"OR", "oregon">>, <<"PA", "pennsylvania">>, <<"RI", "rhode island">>, <<"SC", "south carolina">>,
       <<"SD", "south dakota">>, <<"TN", "tennessee">>, <<"TX", "texas">>, <<"UT", "utah">>,
       <<"VT", "vermont">>, <<"VA", "virginia">>, <<"WA", "washington">>, <<"WV", "west virginia">>,
       <<"WI", "wisconsin">>, <<"WY", "wyoming">> >>

expanded_regions_update ==
    << <<"western north america", <<45000000, -120000000>>>>, <<"east coast", <<40000000, -73000000>>>>,
       <<"carolinas", <<35500000, -79000000>>>>, <<"great plains", <<39000000, -98000000>>>>,
       <<"great lakesarea", <<43000000, -84000000>>>>, <<"northeast", <<43000000, -71000000>>>>,
       <<"northwest", <<46500000, -120000000>>>>, <<"south-central united states", <<33000000, -95000000>>>>,
       <<"south central united states", <<33000000, -95000000>>>>, <<"central and southern states", <<33000000, -95000000>>>>,
       <<"midwestandnortheast", <<41000000, -89000000>>>>, <<"midwest and northeast", <<41000000, -89000000>>>>,
       <<"eastern us", <<40000000, -75000000>>>>, <<"eastern united states", <<40000000, -75000000>>>>,
       <<"western north america", <<45000000, -120000000>>>> >>

extra_keywords ==
    << <<"caribbean", <<15000000, -61000000>>>>, <<"venezuela", <<7000000, -66000000>>>>,
       <<"yucatan", <<20500000, -89500000>>>>, <<"yucatán", <<20500000, -89500000>>>>,
       <<"american samoa", <<-14271000, -170132000>>>>, <<"atlantic canada", <<44650000, -63600000>>>>,
       <<"widespread", <<39800000, -98500000>>>>, <<"nation", <<39800000, -98500000>>>>,
       <<"new england", <<42500000, -71500000>>>>, <<"great lakes", <<43000000, -84000000>>>>,
       <<"la plata", <<38500000, -76970000>>>> >>

city_map ==
    << <<"texas", DictGet(STATE_COORDS, "texas")>>, <<"california", DictGet(STATE_COORDS, "california")>>,
       <<"los angeles", DictGet(STATE_COORDS, "california")>>, <<"greater los angeles", DictGet(STATE_COORDS, "california")>>,
       <<"florida", DictGet(STATE_COORDS, "florida")>>, <<"kansas", DictGet(STATE_COORDS, "kansas")>>,
       <<"montana", DictGet(STATE_COORDS, "montana")>>, <<"kentucky", DictGet(STATE_COORDS, "kentucky")>>,
       <<"new york", DictGet(STATE_COORDS, "new york")>>, <<"hawaii", DictGet(STATE_COORDS, "hawaii")>>,
       <<"puerto rico", DictGet(STATE_COORDS, "puerto rico")>>, <<"alaska", DictGet(STATE_COORDS, "alaska")>>,
       <<"fargo", DictGet(STATE_COORDS, "north dakota")>>, <<"waco", DictGet(STATE_COORDS, "texas")>>,
       <<"carolinas", <<35500000, -79000000>>>>, <<"great plains", <<39000000, -98000000>>>>,
       <<"great lakesarea", <<43000000, -84000000>>>>, <<"midwest", <<41500000, -90000000>>>>,
       <<"midwestern united states", <<41500000, -90000000>>>>, <<"northwest", <<46500000, -120000000>>>>,
       <<"northeast", <<43000000, -71000000>>>>, <<"south central", <<33000000, -95000000>>>>,
       <<"american samoa", <<-14271000, -170132000>>>>, <<"caribbean", <<15000000, -61000000>>>>,
       <<"venezuela", <<7000000, -66000000>>>>, <<"yucatan", <<20500000, -89500000>>>>,
       <<"yucatán", <<20500000, -89500000>>>>, <<"new england", <<42500000, -71500000>>>>,
       <<"great lakes", <<43000000, -84000000>>>> >>

\* dict(REGION_COORDS) followed by .update({...})
expanded_regions == DictUpdate(REGION_COORDS, expanded_regions_update)

RECURSIVE InvertItems(_)
InvertItems(items) ==
    IF items = <<>> THEN <<>>
    ELSE << <<Head(items)[2], Head(items)[1]>> >> \o InvertItems(Tail(items))

\* {v: k for k, v in {...}.items()}: the keys are the state names, the values
\* the two-letter codes.
abbr_map == DictUpdate(<<>>, InvertItems(DictUpdate(<<>>, abbr_literal)))

\* ------------------------------------------------- find_location_coords

\* Lines 96-110: the normalisation of the text, in the order of the code.
NormalizeLocation(text) ==
    LET s1 == Lower(text)
        s2 == Replace(s1, "\n", " ")
        s3 == SubAnd(s2)
        \* lines 101-102 turn U+2013 and U+2014 into "-"; a TLA+ string cannot
        \* hold either character, so no input of the model contains one
        s4 == Replace(s3, "/", ", ")
        s5 == SubRuns(s4, {"_", "\t"}, " ")
        s6 == SubRuns(s5, {".", "(", ")", "[", "]"}, " ")
        s7 == SubHyphen(s6)
    IN  Strip(CollapseSpaces(s7))

RECURSIVE FirstKeyIn(_, _)
\* for k, v in d.items(): if k in s: return v  -- the index of that entry, 0 if
\* the loop ends.
FirstKeyIn(d, s) ==
    IF d = <<>> THEN 0
    ELSE IF Contains(s, Head(d)[1]) THEN 1
    ELSE LET r == FirstKeyIn(Tail(d), s) IN IF r = 0 THEN 0 ELSE r + 1

RECURSIVE SplitTokens(_, _)
\* re.split(r'[,\/;]+| and | & ', s), cur being the token under construction.
SplitTokens(s, cur) ==
    IF s = "" THEN <<cur>>
    ELSE IF Head(s) \in {",", "/", ";"}
         THEN <<cur>> \o SplitTokens(DropWhileIn(s, {",", "/", ";"}), "")
    ELSE IF StartsWith(s, " and ") THEN <<cur>> \o SplitTokens(Drop(s, 5), "")
    ELSE IF StartsWith(s, " & ") THEN <<cur>> \o SplitTokens(Drop(s, 3), "")
    ELSE SplitTokens(Tail(s), cur \o Head(s))

RECURSIVE FirstCodeToken(_)
\* Lines 132-134: the index of the first token that passes the test
\* len(tok) == 2 and tok.upper() in abbr_map, 0 if none does.
FirstCodeToken(tokens) ==
    IF tokens = <<>> THEN 0
    ELSE LET tok == Strip(Head(tokens)) IN
         IF Len(tok) = 2 /\ DictHas(abbr_map, Upper(tok)) THEN 1
         ELSE LET r == FirstCodeToken(Tail(tokens)) IN IF r = 0 THEN 0 ELSE r + 1

find_location_coords(text) ==
    IF text = "" THEN None
    ELSE
    LET s == NormalizeLocation(text)
        st == FirstKeyIn(STATE_COORDS, s)
        tokens == SplitTokens(s, "")
        ct == FirstCodeToken(tokens)
        rg == FirstKeyIn(expanded_regions, s)
        kw == FirstKeyIn(extra_keywords, s)
        cm == FirstKeyIn(city_map, s)
    IN  IF st # 0 THEN STATE_COORDS[st][2]
        ELSE IF ct # 0
             THEN DictGet(STATE_COORDS, DictGet(abbr_map, Upper(Strip(tokens[ct]))))
        ELSE IF rg # 0 THEN expanded_regions[rg][2]
        ELSE IF kw # 0 THEN extra_keywords[kw][2]
        ELSE IF cm # 0 THEN city_map[cm][2]
        ELSE None

\* ------------------------------------------------ geocode_nominatim.py

\* A row of the disasters table holds the three text columns the scripts read;
\* the rowid of a row is its index in the table.
Row(location, main_article, notes) ==
    [location |-> location, main_article |-> main_article, notes |-> notes]

normalize_query(s) ==
    IF s = "" THEN "" ELSE Replace(CollapseSpaces(Strip(s)), "\n", " ")

RECURSIVE Join(_, _)
\* sep.join(strs)
Join(strs, sep) ==
    IF strs = <<>> THEN ""
    ELSE IF Len(strs) = 1 THEN strs[1]
    ELSE strs[1] \o sep \o Join(Tail(strs), sep)

NonEmpty(s) == IF s # "" THEN <<s>> ELSE <<>>

CountryHint == ", United States"

\* Lines 99-113: the query of a row, the country hint included.
BuildQuery(r) ==
    LET q == IF r.location # "" /\ Strip(r.location) # ""
             THEN normalize_query(r.location)
             ELSE normalize_query(Join(NonEmpty(r.main_article) \o NonEmpty(r.notes), " "))
        low == Lower(q)
    IN  IF /\ q # ""
           /\ ~Contains(low, "united states")
           /\ ~Contains(low, "usa")
           /\ ~Contains(low, "puerto rico")
           /\ ~Contains(low, "venezuela")
           /\ ~Contains(low, "american samoa")
        THEN q \o CountryHint
        ELSE q

RECURSIVE Dedupe(_, _)
\* The first occurrence of every non-empty string, in order (lines 144-149,
\* and the keys of unique_qs, lines 118-122).
Dedupe(strs, seen) ==
    IF strs = <<>> THEN <<>>
    ELSE IF Head(strs) # "" /\ Head(strs) \notin seen
         THEN <<Head(strs)>> \o Dedupe(Tail(strs), seen \cup {Head(strs)})
    ELSE Dedupe(Tail(strs), seen)

RECURSIVE SelectMissing_RequeryNegative(_, _)
\* SelectMissing with the test `not cache.get(q)`: a negative entry counts as
\* missing.
SelectMissing_RequeryNegative(qs, c) ==
    IF qs = <<>> THEN <<>>
    ELSE IF Head(qs) \notin DOMAIN c \/ c[Head(qs)] = None
         THEN <<Head(qs)>> \o SelectMissing_RequeryNegative(Tail(qs), c)
    ELSE SelectMissing_RequeryNegative(Tail(qs), c)

RECURSIVE SelectMissing(_, _)
\* missing = [q for q in unique_qs.keys() if q not in cache]
SelectMissing(qs, c) ==
    IF qs = <<>> THEN <<>>
    ELSE IF Head(qs) \notin DOMAIN c THEN <<Head(qs)>> \o SelectMissing(Tail(qs), c)
    ELSE SelectMissing(Tail(qs), c)

RECURSIVE SplitParts(_, _)
\* re.split(r',|;| and | & ', q), cur being the part under construction.
SplitParts(s, cur) ==
    IF s = "" THEN <<cur>>
    ELSE IF Head(s) \in {",", ";"} THEN <<cur>> \o SplitParts(Tail(s), "")
    ELSE IF StartsWith(s, " and ") THEN <<cur>> \o SplitParts(Drop(s, 5), "")
    ELSE IF StartsWith(s, " & ") THEN <<cur>> \o SplitParts(Drop(s, 3), "")
    ELSE SplitParts(Tail(s), cur \o Head(s))

RECURSIVE StripNonEmpty(_)
\* [p.strip() for p in parts if p.strip()]
StripNonEmpty(parts) ==
    IF parts = <<>> THEN <<>>
    ELSE (IF Strip(Head(parts)) # "" THEN <<Strip(Head(parts))>> ELSE <<>>)
         \o StripNonEmpty(Tail(parts))

RECURSIVE InsertByLength(_, _)
InsertByLength(sorted, p) ==
    IF sorted = <<>> THEN <<p>>
    ELSE IF Len(Head(sorted)) >= Len(p) THEN <<Head(sorted)>> \o InsertByLength(Tail(sorted), p)
    ELSE <<p>> \o sorted

\* SortByLength leaving the parts in the order of the split.
SortByLength_Unsorted(parts, acc) == acc \o parts

RECURSIVE SortByLength(_, _)
\* sorted(parts, key=lambda x: -len(x)): stable, longest first.
SortByLength(parts, acc) ==
    IF parts = <<>> THEN acc
    ELSE SortByLength(Tail(parts), InsertByLength(acc, Head(parts)))

RECURSIVE WithHint(_)
WithHint(parts) ==
    IF parts = <<>> THEN <<>> ELSE <<Head(parts) \o CountryHint>> \o WithHint(Tail(parts))

\* Lines 132-149: the attempts of try_geocode_variants for q, in order.
Variants(q) ==
    LET stripped == IF EndsWith(q, CountryHint) THEN <<Replace(q, CountryHint, "")>> ELSE <<>>
        parts_sorted == SortByLength(StripNonEmpty(SplitParts(q, "")), <<>>)
    IN  Dedupe(<<q>> \o stripped \o parts_sorted \o WithHint(parts_sorted), {})

\* The rows a scraped table is made of in the model.
RowChoices ==
    { Row("Texas", "", ""),
      Row("Atlantis", "", ""),
      Row("", "", "Hurricane hit Puerto Rico hard"),
      Row("", "", "") }

\* Rows with every combination of an empty and a non-empty location, article
\* and notes cell, for the scripts that only read the table.
FieldRows ==
    {Row(l, a, n) : l \in {"", "Texas", "Atlantis"},
                    a \in {"", "Storm"},
                    n \in {"", "Hurricane hit Puerto Rico hard"}}

\* GenText with the article and the notes consulted whatever the location.
GenText_AlwaysCombined(r) ==
    Strip(Join(NonEmpty(r.location) \o NonEmpty(r.main_article) \o NonEmpty(r.notes), " "))

\* Rows whose query splits into several parts of different lengths, beside a
\* row with a single part and one that gets no hint.
VariantRows ==
    { Row("Waco and Fargo", "", ""),
      Row("Texas", "", ""),
      Row("", "", "Hurricane hit Puerto Rico hard") }

\* generate_geojson.main, lines 263-274: the text handed to
\* find_location_coords.
GenText(r) ==
    IF r.location = ""
    THEN Strip(Join(NonEmpty(r.main_article) \o NonEmpty(r.notes), " "))
    ELSE r.location

\* BuildQuery, Variants and find_location_coords on the texts of the model's
\* rows, evaluated once.
QueryOfRow == [r \in RowChoices \cup FieldRows \cup VariantRows |-> BuildQuery(r)]

VariantsOfQuery ==
    [q \in {QueryOfRow[r] : r \in RowChoices \cup VariantRows} |-> Variants(q)]

CoordOfText ==
    [s \in {QueryOfRow[r] : r \in RowChoices \cup VariantRows}
            \cup {GenText(r) : r \in RowChoices \cup FieldRows}
        |-> find_location_coords(s)]

\* queries: rowid -> query (lines 96-113)
Queries(table) == [rid \in 1..Len(table) |-> QueryOfRow[table[rid]]]

\* The keys of unique_qs, in order (lines 118-122).
UniqueQueries(table) == Dedupe(Queries(table), {})

EmptyMap == <<>>

AbsentCache == [status |-> "absent", content |-> EmptyMap]

AbsentOut == [exists |-> FALSE, features |-> <<>>]

Feature(rid, lat, lon, location) ==
    [id |-> rid, coordinates |-> <<lon, lat>>, location |-> location]

RECURSIVE approx_map_Swapped(_)
\* approx_map reading the coordinates as (lat, lon), not as the (lon, lat) the
\* output holds.
approx_map_Swapped(features) ==
    IF features = <<>> THEN EmptyMap
    ELSE LET f == features[Len(features)]
             rest == approx_map_Swapped(SubSeq(features, 1, Len(features) - 1))
         IN  (f.id :> <<f.coordinates[1], f.coordinates[2]>>) @@ rest

RECURSIVE approx_map(_)
\* Lines 175-187: id -> (lat, lon) of the features of the existing output; a
\* later feature with the same id overwrites an earlier one.
approx_map(features) ==
    IF features = <<>> THEN EmptyMap
    ELSE LET f == features[Len(features)]
             rest == approx_map(SubSeq(features, 1, Len(features) - 1))
         IN  (f.id :> <<f.coordinates[2], f.coordinates[1]>>) @@ rest

\* RowCoord consulting the earlier output before the cache.
RowCoord_EarlierFirst(rid, q, c, approx) ==
    LET carried == IF rid \in DOMAIN approx THEN approx[rid] ELSE None
        cached == IF carried = None /\ q # "" /\ q \in DOMAIN c /\ c[q] # None
                  THEN c[q] ELSE carried
    IN  IF cached = None THEN CoordOfText[q] ELSE cached

\* Lines 194-206: the coordinate of row rid, None when it is skipped.
RowCoord(rid, q, c, approx) ==
    LET cached == IF q # "" /\ q \in DOMAIN c /\ c[q] # None THEN c[q] ELSE None
        carried == IF cached = None /\ rid \in DOMAIN approx THEN approx[rid] ELSE cached
    IN  IF carried = None THEN CoordOfText[q] ELSE carried

RECURSIVE BuildFeatures(_, _, _, _)
\* Lines 190-220, for the rows rid..Len(table).
BuildFeatures(table, rid, c, approx) ==
    IF rid > Len(table) THEN <<>>
    ELSE LET xy == RowCoord(rid, QueryOfRow[table[rid]], c, approx)
         IN  (IF xy = None THEN <<>>
              ELSE <<Feature(rid, xy[1], xy[2], table[rid].location)>>)
             \o BuildFeatures(table, rid + 1, c, approx)

\* What query_nominatim can return: None (no result, a network error, a
\* non-200 status, a malformed payload) or a coordinate.
ExtCoords == {<<46877186, -96789803>>}

Responses == {None} \cup ExtCoords

\* What a request of query_nominatim can meet: requests.get raises, a status
\* other than 200, an empty array, a payload that r.json or the indexing of
\* line 59 rejects, or a first element with a coordinate.
FailureKinds == {"neterror", "status", "malformed"}

Replies ==
    {[kind |-> k, coord |-> None] : k \in FailureKinds \cup {"empty"}}
    \cup {[kind |-> "found", coord |-> c] : c \in ExtCoords}

NoReply == [kind |-> "none", coord |-> None]

\* What the loop of lines 150-155 has of a reply: a coordinate, an empty
\* result, or a failure (the message of line 61 or a status other than 200).
Observed(reply) ==
    [kind |-> IF reply.kind \in FailureKinds THEN "failed" ELSE reply.kind,
     coord |-> reply.coord]

\* query_nominatim: the coordinate of line 59, None on every other path
\* (the except of lines 60-61 included).
query_nominatim(reply) == IF reply.kind = "found" THEN reply.coord ELSE None

\* Lines 150-155: the loop over out goes on after a result of None while
\* attempts are left.
TryNext_GivesUp(res, i, out) == FALSE

TryNext(res, i, out) == res = None /\ i < Len(out)

\* Lines 161-166: the cache entry of a settled query, None included.
Settle_DropsNoResult(c, q, res) == IF res = None THEN c ELSE (q :> res) @@ c

Settle(c, q, res) == (q :> res) @@ c

\* ------------------------------------------------------ generate_geojson.py

RECURSIVE GenFeatures(_, _)
\* Lines 260-294, for the rows rid..Len(table).
GenFeatures(table, rid) ==
    IF rid > Len(table) THEN <<>>
    ELSE LET xy == CoordOfText[GenText(table[rid])]
         IN  (IF xy = None THEN <<>>
              ELSE <<Feature(rid, xy[1], xy[2], table[rid].location)>>)
             \o GenFeatures(table, rid + 1)

\* ------------------------------------------------------- geocode_missing.py

\* load_existing_ids: the ids of the features of the existing output.
load_existing_ids(features) == {features[i].id : i \in 1..Len(features)}

\* Lines 81-90: the rowids to geocode.
ToGeocode(table, existing_ids) ==
    {rid \in 1..Len(table) : rid \notin existing_ids /\ Strip(table[rid].location) # ""}

RECURSIVE MissingFeatures(_, _, _, _)
\* Lines 94-117 for the rows rid..Len(table): a feature is appended for every
\* row to geocode whose request resp[rid] returned a coordinate.
MissingFeatures(table, rid, todo, resp) ==
    IF rid > Len(table) THEN <<>>
    ELSE (IF rid \in todo /\ resp[rid] # None
          THEN <<Feature(rid, resp[rid][1], resp[rid][2], Strip(table[rid].location))>>
          ELSE <<>>)
         \o MissingFeatures(table, rid + 1, todo, resp)

\* -------------------------------------------------------- list_unmatched.py

\* ListCoord without the fallback of lines 35-44.
ListCoord_NoFallback(r) ==
    IF r.location # "" THEN CoordOfText[r.location] ELSE None

\* Lines 30-44: the coordinate list_unmatched finds for a row.
ListCoord(r) ==
    IF r.location # "" THEN CoordOfText[r.location]
    ELSE LET combined == Strip(Join(NonEmpty(r.main_article) \o NonEmpty(r.notes), " "))
         IN  IF combined # "" THEN CoordOfText[combined] ELSE None

RECURSIVE Unmatched(_, _)
\* Lines 28-46, for the rows rid..Len(table): the rowids appended to unmatched.
Unmatched(table, rid) ==
    IF rid > Len(table) THEN <<>>
    ELSE (IF ListCoord(table[rid]) = None THEN <<rid>> ELSE <<>>)
         \o Unmatched(table, rid + 1)

NotListed == [done |-> FALSE, ids |-> <<>>]

\* ----------------------------------------------------------- the pipeline

MaxRows == 2

MaxRuns == 3

RECURSIVE TablesOfLen(_)
TablesOfLen(n) ==
    IF n = 0 THEN {<<>>}
    ELSE {Append(tb, r) : tb \in TablesOfLen(n - 1), r \in RowChoices}

Tables == UNION {TablesOfLen(n) : n \in 0..MaxRows}

textvars == <<loc_text, norm, coord, resolved, listed>>

filevars == <<rows, cacheFile, outFile>>

runvars == <<pc, cache, missing, mi, ai, lastNet, loaded, prevOut, lastReply, sent>>

vars == <<textvars, filevars, runvars, runs, lastDone>>

\* No run of geocode_nominatim in progress.
NoRun ==
    /\ pc = "idle"
    /\ cache = EmptyMap
    /\ missing = <<>>
    /\ mi = 1
    /\ ai = 1
    /\ lastNet = "none"
    /\ loaded = EmptyMap
    /\ prevOut = AbsentOut
    /\ lastReply = NoReply
    /\ sent = <<>>

\* The process of a run ends: its variables are gone.
EndRun ==
    /\ pc' = "idle"
    /\ cache' = EmptyMap
    /\ missing' = <<>>
    /\ mi' = 1
    /\ ai' = 1
    /\ lastNet' = "none"
    /\ loaded' = EmptyMap
    /\ prevOut' = AbsentOut
    /\ lastReply' = NoReply
    /\ sent' = <<>>

NoText ==
    /\ loc_text = ""
    /\ norm = ""
    /\ coord = None
    /\ resolved = FALSE
    /\ listed = NotListed

Init ==
    /\ NoText
    /\ rows \in Tables
    /\ cacheFile = AbsentCache
    /\ outFile = AbsentOut
    /\ NoRun
    /\ runs = 0
    /\ lastDone = "none"

\* csv_to_db.main: the table is dropped and filled with the rows of the CSV.
LoadTable ==
    /\ pc = "idle"
    /\ runs < MaxRuns
    /\ \E tb \in Tables : rows' = tb
    /\ runs' = runs + 1
    /\ lastDone' = "load"
    /\ UNCHANGED <<textvars, cacheFile, outFile, runvars>>

\* generate_geojson.main
GenerateGeojson ==
    /\ pc = "idle"
    /\ runs < MaxRuns
    /\ outFile' = [exists |-> TRUE, features |-> GenFeatures(rows, 1)]
    /\ runs' = runs + 1
    /\ lastDone' = "generate"
    /\ UNCHANGED <<textvars, rows, cacheFile, runvars>>

\* geocode_missing.main without an output file (lines 51-53): nothing is done.
GeocodeMissingNoFile ==
    /\ pc = "idle"
    /\ runs < MaxRuns
    /\ ~outFile.exists
    /\ runs' = runs + 1
    /\ UNCHANGED <<textvars, filevars, runvars, lastDone>>

\* geocode_missing.main: one request per row to geocode, the new features
\* appended to the existing ones.
GeocodeMissing ==
    /\ pc = "idle"
    /\ runs < MaxRuns
    /\ outFile.exists
    /\ LET todo == ToGeocode(rows, load_existing_ids(outFile.features))
       IN  \E resp \in [todo -> Responses] :
             outFile' = [exists |-> TRUE,
                         features |-> outFile.features
                                      \o MissingFeatures(rows, 1, todo, resp)]
    /\ runs' = runs + 1
    /\ lastDone' = "missing"
    /\ UNCHANGED <<textvars, rows, cacheFile, runvars>>

\* geocode_nominatim.main, lines 64-125, when load_cache raises on a cache
\* file that is no JSON document: the run ends there.
NomCrash ==
    /\ pc = "idle"
    /\ runs < MaxRuns
    /\ cacheFile.status = "partial"
    /\ runs' = runs + 1
    /\ lastDone' = "crashed"
    /\ UNCHANGED <<textvars, filevars, runvars>>

\* geocode_nominatim.main, lines 64-125: the queries, the cache, the missing
\* queries.
NomStart ==
    /\ pc = "idle"
    /\ runs < MaxRuns
    /\ cacheFile.status # "partial"
    /\ cache' = cacheFile.content
    /\ loaded' = cacheFile.content
    /\ missing' = SelectMissing(UniqueQueries(rows), cacheFile.content)
    /\ pc' = IF missing' = <<>> THEN "save" ELSE "geocode"
    /\ runs' = runs + 1
    /\ UNCHANGED <<textvars, filevars, mi, ai, lastNet, prevOut, lastReply, sent, lastDone>>

\* Line 151: one call of query_nominatim, for attempt ai of query missing[mi];
\* with it, when the query is settled, lines 161-169: the cache entry and the
\* sleep.
NomAttempt ==
    /\ pc = "geocode"
    /\ LET q == missing[mi]
           out == VariantsOfQuery[q]
       IN  \E reply \in Replies :
             /\ lastReply' = Observed(reply)
             /\ sent' = IF ai = 1 THEN <<out[ai]>> ELSE Append(sent, out[ai])
             /\ IF TryNext(query_nominatim(reply), ai, out)
                THEN /\ ai' = ai + 1
                     /\ lastNet' = "call"
                     /\ UNCHANGED <<cache, mi, pc>>
                ELSE /\ cache' = Settle(cache, q, query_nominatim(reply))
                     /\ mi' = mi + 1
                     /\ ai' = 1
                     /\ lastNet' = "sleep"
                     /\ pc' = IF mi = Len(missing) THEN "save" ELSE "geocode"
    /\ UNCHANGED <<textvars, filevars, missing, loaded, prevOut, runs, lastDone>>

\* save_cache, first half: write_text opens the file for writing, which
\* truncates it. The loop of lines 158-169 is over and its last reply and
\* attempts are gone.
NomSaveOpen ==
    /\ pc = "save"
    /\ cacheFile' = [status |-> "partial", content |-> EmptyMap]
    /\ pc' = "write"
    /\ lastReply' = NoReply
    /\ sent' = <<>>
    /\ UNCHANGED <<textvars, rows, outFile, cache, missing, mi, ai, lastNet, loaded,
                   prevOut, runs, lastDone>>

\* save_cache, second half: the whole mapping is in the file.
NomSaveWrite ==
    /\ pc = "write"
    /\ cacheFile' = [status |-> "complete", content |-> cache]
    /\ pc' = "build"
    /\ UNCHANGED <<textvars, rows, outFile, cache, missing, mi, ai, lastNet, loaded,
                   prevOut, lastReply, sent, runs, lastDone>>

\* Lines 174-223: the features are built and the output is written.
NomBuild ==
    /\ pc = "build"
    /\ prevOut' = outFile
    /\ outFile' = [exists |-> TRUE,
                   features |-> BuildFeatures(rows, 1, cache, approx_map(outFile.features))]
    /\ pc' = "done"
    /\ UNCHANGED <<textvars, rows, cacheFile, cache, missing, mi, ai, lastNet, loaded,
                   lastReply, sent, runs, lastDone>>

\* main returns and the process ends.
NomExit ==
    /\ pc = "done"
    /\ EndRun
    /\ lastDone' = "nominatim"
    /\ UNCHANGED <<textvars, filevars, runs>>

\* The run is interrupted (the process is killed) before it wrote its output.
Interrupt ==
    /\ pc \in {"geocode", "save", "write", "build"}
    /\ EndRun
    /\ lastDone' = "interrupted"
    /\ UNCHANGED <<textvars, filevars, runs>>

Next ==
    \/ LoadTable
    \/ GenerateGeojson
    \/ GeocodeMissingNoFile
    \/ GeocodeMissing
    \/ NomCrash
    \/ NomStart
    \/ NomAttempt
    \/ NomSaveOpen
    \/ NomSaveWrite
    \/ NomBuild
    \/ NomExit
    \/ Interrupt

Spec == Init /\ [][Next]_vars

\* The table is loaded and geocode_nominatim runs, no process killed: a run
\* that has started keeps executing its next statement.
NextUninterrupted ==
    \/ LoadTable
    \/ NomStart
    \/ NomAttempt
    \/ NomSaveOpen
    \/ NomSaveWrite
    \/ NomBuild
    \/ NomExit

SpecUninterrupted ==
    /\ Init
    /\ [][NextUninterrupted]_vars
    /\ WF_vars(NomAttempt)
    /\ WF_vars(NomSaveOpen)
    /\ WF_vars(NomSaveWrite)
    /\ WF_vars(NomBuild)

\* --------------------------------------- geocode_nominatim on split queries

VariantTables == UNION {{tb \in [1..n -> VariantRows] : TRUE} : n \in 0..MaxRows}

InitVariants ==
    /\ NoText
    /\ rows \in VariantTables
    /\ cacheFile = AbsentCache
    /\ outFile = AbsentOut
    /\ NoRun
    /\ runs = 0
    /\ lastDone = "none"

\* Runs of geocode_nominatim, one after the other, on a table that stays.
NextVariants ==
    \/ NomCrash
    \/ NomStart
    \/ NomAttempt
    \/ NomSaveOpen
    \/ NomSaveWrite
    \/ NomBuild
    \/ NomExit
    \/ Interrupt

SpecVariants == InitVariants /\ [][NextVariants]_vars

\* ------------------------------------ the scripts that only read the table

FieldTables == UNION {{tb \in [1..n -> FieldRows] : TRUE} : n \in 0..MaxRows}

InitFields ==
    /\ NoText
    /\ rows \in FieldTables
    /\ cacheFile = AbsentCache
    /\ outFile = AbsentOut
    /\ NoRun
    /\ runs = 0
    /\ lastDone = "none"

\* list_unmatched.main
ListUnmatched ==
    /\ pc = "idle"
    /\ runs < MaxRuns
    /\ listed' = [done |-> TRUE, ids |-> Unmatched(rows, 1)]
    /\ runs' = runs + 1
    /\ UNCHANGED <<loc_text, norm, coord, resolved, filevars, runvars, lastDone>>

\* The table is read by generate_geojson, by list_unmatched and by the start
\* of geocode_nominatim, whose run is stopped before its first request.
NextFields ==
    \/ GenerateGeojson
    \/ ListUnmatched
    \/ NomStart
    \/ Interrupt

SpecFields == InitFields /\ [][NextFields]_vars

\* ------------------------------------- the matcher applied to bounded inputs

\* Inputs of the normalisation: up to MaxTextLen fragments, each a character the
\* normalisation treats specially, a letter, or the word "and".
MaxTextLen == 4

TextAlphabet == {"and", "And", "x", "_", ",", " ", "-", "/", ".", "\t"}

RECURSIVE StringsUpTo(_)
StringsUpTo(n) ==
    IF n = 0 THEN {""}
    ELSE LET shorter == StringsUpTo(n - 1)
         IN  shorter \cup {s \o c : s \in shorter, c \in TextAlphabet}

StateNames == DictKeys(STATE_COORDS)

PostalCodes == {abbr_literal[i][1] : i \in 1..Len(abbr_literal)}

Phrases ==
    StateNames
    \cup {a \o " and " \o b : a \in StateNames, b \in StateNames}
    \cup {"Springfield, " \o c : c \in PostalCodes}
    \cup {"Fire in " \o c \o ", 1999" : c \in PostalCodes}
    \cup {c \o "; Fargo" : c \in PostalCodes}
    \cup DictKeys(expanded_regions) \cup DictKeys(extra_keywords) \cup DictKeys(city_map)
    \cup {"Fargo, ND", "FLorida", "Atlantis", "Waco and Caribbean",
          "Great Lakes / Northeast", "South - Central United States"}

TextInputs == StringsUpTo(MaxTextLen) \cup Phrases

InitText ==
    /\ loc_text \in TextInputs
    /\ norm = ""
    /\ coord = None
    /\ resolved = FALSE
    /\ listed = NotListed
    /\ rows = <<>>
    /\ cacheFile = AbsentCache
    /\ outFile = AbsentOut
    /\ NoRun
    /\ runs = 0
    /\ lastDone = "none"

Resolve ==
    /\ ~resolved
    /\ norm' = NormalizeLocation(loc_text)
    /\ coord' = find_location_coords(loc_text)
    /\ resolved' = TRUE
    /\ UNCHANGED <<loc_text, listed, filevars, runvars, runs, lastDone>>

NextText == Resolve

SpecText == InitText /\ [][NextText]_vars

\* ------------------------------------------------ claims about the matcher

\* C1: find_location_coords called with exactly one of the 52 state/territory
\* names returns that same entry's centroid.
C1_StateNameResolvesToOwnCentroid ==
    (resolved /\ loc_text \in StateNames) => coord = DictGet(STATE_COORDS, loc_text)

\* The two-letter tier as the claims state it: the first separator-delimited
\* token of exactly two characters that uppercases to a postal abbreviation.
RECURSIVE FirstPostalToken(_)
FirstPostalToken(tokens) ==
    IF tokens = <<>> THEN 0
    ELSE LET tok == Strip(Head(tokens)) IN
         IF Len(tok) = 2 /\ Upper(tok) \in PostalCodes THEN 1
         ELSE LET r == FirstPostalToken(Tail(tokens)) IN IF r = 0 THEN 0 ELSE r + 1

PostalCentroid(tok) ==
    DictGet(STATE_COORDS, DictGet(DictUpdate(<<>>, abbr_literal), Upper(Strip(tok))))

\* C2: a text whose normal form contains no full state name but a postal
\* abbreviation as a bare two-character token resolves to the centroid of the
\* state the abbreviation stands for.
C2_BareCodeResolvesToItsState ==
    LET tokens == SplitTokens(norm, "")
        ct == FirstPostalToken(tokens)
    IN  (resolved /\ loc_text # "" /\ FirstKeyIn(STATE_COORDS, norm) = 0 /\ ct # 0)
            => coord = PostalCentroid(tokens[ct])

\* The cascade as C3 states it: state names, two-letter codes, region/keyword
\* phrases, city/alias keywords; the first declared entry of the first
\* matching tier.
TierCascade(s) ==
    LET st == FirstKeyIn(STATE_COORDS, s)
        tokens == SplitTokens(s, "")
        ct == FirstPostalToken(tokens)
        phrases == expanded_regions \o extra_keywords
        ph == FirstKeyIn(phrases, s)
        cm == FirstKeyIn(city_map, s)
    IN  IF st # 0 THEN STATE_COORDS[st][2]
        ELSE IF ct # 0 THEN PostalCentroid(tokens[ct])
        ELSE IF ph # 0 THEN phrases[ph][2]
        ELSE IF cm # 0 THEN city_map[cm][2]
        ELSE None

\* C3: the result is the coordinate of the first tier that matches, the first
\* declared entry inside it, and no match exactly when no tier matches or the
\* text is empty.
C3_FirstMatchingTierWins ==
    resolved => coord = (IF loc_text = "" THEN None ELSE TierCascade(norm))

\* C4: normalising the normalised text again gives the same string, and the
\* normalised text has no leading or trailing whitespace.
C4_NormalizationIdempotent ==
    resolved => (NormalizeLocation(norm) = norm /\ Strip(norm) = norm)

\* ----------------------------------------------- claims about the pipeline

\* The features of a collection that carry id rid.
FeaturesOf(features, rid) ==
    {features[i] : i \in {j \in 1..Len(features) : features[j].id = rid}}

Positive(c, q) == q # "" /\ q \in DOMAIN c /\ c[q] # None

Negative(c, q) == q # "" /\ q \in DOMAIN c /\ c[q] = None

SeqToSet(s) == {s[i] : i \in 1..Len(s)}

\* C5: the external client is invoked for a query only if the loaded cache has
\* no entry at all for it; a query whose entry is the explicit negative causes
\* no call and its record goes on to the fallback resolution; a query with a
\* positive entry uses the cached coordinate.
C5_ExternalOnlyForUncachedQueries ==
    /\ pc = "geocode" => missing[mi] \notin DOMAIN loaded
    /\ pc = "done" =>
         \A rid \in 1..Len(rows) :
            LET q == QueryOfRow[rows[rid]]
                approx == approx_map(prevOut.features)
                fallback == IF rid \in DOMAIN approx THEN approx[rid]
                            ELSE CoordOfText[q]
                got == {f.coordinates : f \in FeaturesOf(outFile.features, rid)}
            IN  /\ Positive(loaded, q) => got = {<<loaded[q][2], loaded[q][1]>>}
                /\ Negative(loaded, q) =>
                     /\ q \notin SeqToSet(missing)
                     /\ got = IF fallback = None THEN {}
                              ELSE {<<fallback[2], fallback[1]>>}

\* C5's case: a run that called the external client for an uncached query and
\* finished, with another query negatively cached when it started.
C5_Witness ==
    /\ pc = "done"
    /\ missing # <<>>
    /\ \E rid \in 1..Len(rows) : Negative(loaded, QueryOfRow[rows[rid]])

\* C6: no external call is issued while the run's last network event is
\* another call: the delay lies between any two consecutive calls.
C6_DelayBetweenCalls ==
    pc = "geocode" => lastNet \in {"none", "sleep"}

C8_RerunWritesSameFeatures ==
    (pc = "done" /\ lastDone = "nominatim" /\ missing = <<>>)
        => outFile.features = prevOut.features

\* C8's case: such a second run, with features to compare.
C8_Witness ==
    /\ pc = "done"
    /\ lastDone = "nominatim"
    /\ missing = <<>>
    /\ Len(outFile.features) = MaxRows

ValidCollection(features, table) ==
    /\ \A f \in SeqToSet(features) :
          /\ f.id \in 1..Len(table)
          /\ -180000000 <= f.coordinates[1] /\ f.coordinates[1] <= 180000000
          /\ -90000000 <= f.coordinates[2] /\ f.coordinates[2] <= 90000000
    /\ \A i \in 1..Len(features) : \A j \in 1..Len(features) :
          features[i].id = features[j].id => i = j

\* C9: in the collection a generating script has just written, every feature's
\* id is the id of a record of the table, no id occurs twice, and the geometry
\* is [longitude, latitude] within range.
C9_FeaturesMatchTable ==
    (pc = "done" \/ (pc = "idle" /\ lastDone \in {"generate", "missing"}))
        => ValidCollection(outFile.features, rows)

\* C10: after an interrupted run the cache file is absent or a complete
\* mapping.
C10_CacheFileReloadable ==
    lastDone = "interrupted" => cacheFile.status \in {"absent", "complete"}

\* ------------------------------------------- claims about the external lookups

\* A step of NomAttempt whose request met a failure.
FailedAttempt ==
    /\ pc = "geocode"
    /\ pc' \in {"geocode", "save"}
    /\ <<mi, ai>> # <<mi', ai'>>
    /\ lastReply'.kind = "failed"

\* What the claim asks of such a step: with variants left the next one is the
\* next attempt of the same query and nothing is cached; with none left the
\* query is cached as negative and the run goes on to the next query, or to
\* the save after the last one.
FailureIsNoResult ==
    LET q == missing[mi]
        out == VariantsOfQuery[q]
    IN  IF ai < Len(out)
        THEN /\ pc' = "geocode"
             /\ mi' = mi
             /\ ai' = ai + 1
             /\ cache' = cache
        ELSE /\ mi' = mi + 1
             /\ ai' = 1
             /\ q \in DOMAIN cache' /\ cache'[q] = None
             /\ \A k \in DOMAIN cache : k \in DOMAIN cache' /\ (k # q => cache'[k] = cache[k])
             /\ pc' = IF mi < Len(missing) THEN "geocode" ELSE "save"

\* C11: a failed external attempt (network error, non-success status, malformed
\* payload) counts as no result for that attempt only: the remaining variants
\* are tried in order, the remaining queries are processed, and an
\* uninterrupted run reaches the point where the cache and the output are
\* written.
C11_FailedAttemptIsNotFatal ==
    /\ [][FailedAttempt => FailureIsNoResult]_vars
    /\ (pc \in {"geocode", "save"} /\ lastReply.kind = "failed") ~> (pc = "done")

\* A run is about to save its cache after the attempts of its second query,
\* several of them, ended in a failure, as those of its first query did.
C11_Witness ==
    /\ pc = "save"
    /\ Len(missing) = 2
    /\ lastReply.kind = "failed"
    /\ Len(sent) > 1
    /\ cache[missing[1]] = None
    /\ cache[missing[2]] = None

\* The query the strings of sent were issued for: the one being geocoded
\* while attempts are under way, the one before it once it is settled.
SentQuery == IF ai > 1 THEN missing[mi] ELSE missing[mi - 1]

\* The query with the hint stripped, when it ends with the hint.
HintStripped(q) ==
    IF EndsWith(q, CountryHint) THEN {SubSeq(q, 1, Len(q) - Len(CountryHint))} ELSE {}

\* The delimited parts of a string.
PartsOf(q) == SeqToSet(StripNonEmpty(SplitParts(q, "")))

PartsOfQuery == [q \in DOMAIN VariantsOfQuery |-> PartsOf(q)]

\* The place of an attempt in the order of the claim: 1 the full query, 2 the
\* query with the hint stripped, 3 a part, 4 a part with the hint appended,
\* 5 anything else.
AttemptRank(a, q) ==
    IF a = q THEN 1
    ELSE IF a \in HintStripped(q) THEN 2
    ELSE IF a \in PartsOfQuery[q] THEN 3
    ELSE IF a \in {p \o CountryHint : p \in PartsOfQuery[q]} THEN 4
    ELSE 5

AllAttempts(q) ==
    {q} \cup HintStripped(q) \cup PartsOfQuery[q]
        \cup {p \o CountryHint : p \in PartsOfQuery[q]}

\* C14: the attempts issued for a missing query come in the order full query,
\* query without the hint, parts by descending length, parts with the hint;
\* none is empty or issued twice; all of them are issued when none returns a
\* coordinate; and once one returns a coordinate the query is settled with no
\* further attempt and that coordinate is its cache entry.
C14_AttemptOrderAndShortCircuit ==
    sent # <<>> =>
      LET q == SentQuery
      IN  /\ sent[1] = q
          /\ \A i \in 1..Len(sent) : sent[i] # "" /\ AttemptRank(sent[i], q) <= 4
          /\ \A i, j \in 1..Len(sent) :
                i < j => /\ sent[i] # sent[j]
                         /\ AttemptRank(sent[i], q) <= AttemptRank(sent[j], q)
                         /\ (AttemptRank(sent[i], q) = AttemptRank(sent[j], q)
                               => Len(sent[i]) >= Len(sent[j]))
          /\ lastReply.kind = "found" =>
                ai = 1 /\ q \in DOMAIN cache /\ cache[q] = lastReply.coord
          /\ (ai = 1 /\ lastReply.kind # "found") =>
                SeqToSet(sent) = AllAttempts(q) /\ cache[q] = None
          /\ ai > 1 => lastReply.kind # "found" /\ q \notin DOMAIN cache

\* A query with parts of three lengths was settled by a coordinate returned
\* for its shortest part, after the longer ones returned none.
C14_Witness ==
    /\ pc \in {"geocode", "save"}
    /\ ai = 1
    /\ Len(sent) = 5
    /\ sent[1] = "Waco and Fargo, United States"
    /\ sent[5] = "Waco"
    /\ lastReply.kind = "found"

\* The query is the record's text with the hint appended by line 112.
HintAppended(q) ==
    /\ EndsWith(q, CountryHint)
    /\ ~Contains(Lower(SubSeq(q, 1, Len(q) - Len(CountryHint))), "united states")

\* What may be sent for such a query: the query, the record's text, the parts
\* of the record's text, and those parts with the hint.
FromRecordText(q) ==
    LET text == SubSeq(q, 1, Len(q) - Len(CountryHint))
    IN  {q, text} \cup PartsOf(text) \cup {p \o CountryHint : p \in PartsOf(text)}

\* C15: every string sent for a query is the record's query or one of its
\* delimited parts, with or without the country hint; for a query that got
\* the hint from the pipeline, the hint alone ("United States", or the hint
\* appended to itself) is never sent.
C15_AttemptsFromRecordText ==
    (sent # <<>> /\ HintAppended(SentQuery)) =>
        \A i \in 1..Len(sent) :
            /\ sent[i] \in FromRecordText(SentQuery)
            /\ sent[i] \notin {"United States", "United States, United States"}

\* C16: when a run of geocode_nominatim has completed, every non-empty query
\* of the records has an entry in the saved cache, positive or negative, and
\* every entry the run loaded is still there; a run that follows it over the
\* same records finds no query missing and issues no external call, whatever
\* made the attempts of the first run fail.
C16_CompletedRunCachesEveryQuery ==
    /\ pc = "done" =>
          /\ cacheFile.status = "complete"
          /\ \A q \in SeqToSet(UniqueQueries(rows)) : q \in DOMAIN cacheFile.content
          /\ \A k \in DOMAIN loaded :
                k \in DOMAIN cacheFile.content /\ cacheFile.content[k] = loaded[k]
    /\ (pc # "idle" /\ lastDone = "nominatim") =>
          missing = <<>> /\ lastNet = "none" /\ sent = <<>>

\* A run that followed a completed one over the same records has completed
\* too, with a query that the cache holds as negative.
C16_Witness ==
    /\ pc = "done"
    /\ lastDone = "nominatim"
    /\ lastNet = "none"
    /\ \E q \in SeqToSet(UniqueQueries(rows)) : cacheFile.content[q] = None

\* ----------------------------------- claims about the reading of the table

\* The rows generate_geojson wrote no feature for.
SkippedByGenerate == {rid \in 1..Len(rows) : rid \notin load_existing_ids(outFile.features)}

\* C12: for every table content, the set of rows generate_geojson skips equals
\* the set of rows list_unmatched reports, and both scripts finish on rows
\* whose text matches no tier.
C12_SkippedEqualsUnmatched ==
    (listed.done /\ outFile.exists) => SeqToSet(listed.ids) = SkippedByGenerate

\* Both scripts ran on a table with the row "Atlantis" without notes, which is
\* skipped and listed, and a row that got a feature.
C12_Witness ==
    /\ listed.done
    /\ outFile.exists
    /\ outFile.features # <<>>
    /\ \E rid \in SeqToSet(listed.ids) : rows[rid] = Row("Atlantis", "", "")

\* The text of a record as the claim states it: the location when it is not
\* empty, else the article, a space, the notes.
TextOfRecord(r) ==
    IF r.location # "" THEN r.location ELSE r.main_article \o " " \o r.notes

\* The record holding that text as its location and nothing else.
LocationOnly(r) == Row(TextOfRecord(r), "", "")

CoordOfRecord == [r \in FieldRows |-> find_location_coords(TextOfRecord(r))]

QueryOfRecord == [r \in FieldRows |-> BuildQuery(LocationOnly(r))]

PuertoRicoCentroid == <<18220800, -66590100>>

\* C13: the text resolved for a record is its location field when that is not
\* empty, whatever the article and the notes hold, and otherwise the article
\* followed by the notes, joined by a space: generate_geojson writes exactly
\* the features that text resolves to (Puerto Rico's centroid for an empty
\* location with notes "Hurricane hit Puerto Rico hard"), and the queries of
\* geocode_nominatim are the queries of that text.
C13_LocationFirstThenArticleNotes ==
    /\ outFile.exists =>
          /\ \A rid \in 1..Len(rows) :
                (rid \in SkippedByGenerate) <=> (CoordOfRecord[rows[rid]] = None)
          /\ \A i \in 1..Len(outFile.features) :
                LET f == outFile.features[i]
                IN  /\ <<f.coordinates[2], f.coordinates[1]>> = CoordOfRecord[rows[f.id]]
                    /\ rows[f.id] = Row("", "", "Hurricane hit Puerto Rico hard")
                          => <<f.coordinates[2], f.coordinates[1]>> = PuertoRicoCentroid
    /\ pc \in {"geocode", "save"} =>
          missing = Dedupe([rid \in 1..Len(rows) |-> QueryOfRecord[rows[rid]]], {})

\* generate_geojson and the start of geocode_nominatim have read a table with
\* a record whose location and notes are both filled and a record with only
\* the Puerto Rico notes, which got a feature.
C13_Witness ==
    /\ outFile.exists
    /\ pc = "geocode"
    /\ \E rid \in 1..Len(rows) : rows[rid].location # "" /\ rows[rid].notes # ""
    /\ \E rid \in load_existing_ids(outFile.features) :
          rows[rid] = Row("", "", "Hurricane hit Puerto Rico hard")

====
